---- MODULE Spec2Model ----
(***************************************************************************)
(* iijwLauncher (src/main.py): the catalog with its fuzzy search, the      *)
(* Downloader worker thread and the download-and-launch handlers of        *)
(* programLauncher, as a state machine.                                    *)
(*                                                                         *)
(* The foreground (Qt main thread) runs one handler at a time; the         *)
(* Downloader runs on its own thread and its signals reach the foreground  *)
(* through the event queue (queued connections), in emission order.        *)
(* Strings that the code transforms are sequences of one-character         *)
(* strings, so that replace(), strip() and default_process are computed.   *)
(* The program never reads its log; logs and spawned hold the lines and    *)
(* the Popen calls since the latest launch_program call began.             *)
(***************************************************************************)
EXTENDS Integers, Sequences, FiniteSets, TLC

VARIABLES
    original_program_data,  \* self.original_program_data
    search_choices,         \* self.search_choices: (combined_text, program)
    program_data,           \* self.program_data, the active view
    current_row,            \* self.program_list.currentRow(), -1 when none
    search_text,            \* self.search_input.text()
    wratio,                 \* fuzz.WRatio on processed strings, a fixed function
    launch_enabled,         \* self.launch_button.isEnabled()
    launch_text,            \* self.launch_button.text()
    progress_maximum,       \* self.progress_bar.maximum()
    progress_value,         \* self.progress_bar.value()
    downloader,             \* self.downloader (id 0 is None)
    thread,                 \* the Downloader thread: position in run() and its locals
    queue,                  \* signals queued to the foreground, oldest first
    fs,                     \* the files under .\bin: -1 absent, else the size
    bin_dir,                \* os.path.exists(".\bin")
    incomplete,             \* the files opened by run and not written to the end (history)
    launches,               \* the number of launch_program calls so far
    session,                \* what the latest launch_program call did (history)
    logs,                   \* the lines self.log wrote since that call began
    spawned,                \* the subprocess.Popen calls made since that call began
    emitted,                \* signals emitted by the job of self.downloader (history)
    handled,                \* signals of that job handled so far (history)
    crashed,                \* the process was aborted by Qt
    load                    \* load_data: "pending", "loaded", or "failed" when it raised

vars == <<original_program_data, search_choices, program_data, current_row, search_text, wratio,
          launch_enabled, launch_text, progress_maximum, progress_value, downloader,
          thread, queue, fs, bin_dir, incomplete, launches, session, logs, spawned, emitted,
          handled, crashed, load>>

catalogVars == <<original_program_data, search_choices, wratio, load>>
viewVars == <<program_data, current_row, search_text>>
uiVars == <<launch_enabled, launch_text, progress_maximum, progress_value>>
jobVars == <<downloader, thread, queue, emitted, handled>>
diskVars == <<fs, bin_dir, incomplete>>

(***************************************************************************)
(* Bounds.                                                                 *)
(***************************************************************************)
MaxCatalog == 3      \* entries in the remote catalog
MaxLaunches == 2     \* launch_program calls in one run
MaxChunks == 2       \* chunks iter_content yields in one download

(***************************************************************************)
(* Sample data.                                                            *)
(***************************************************************************)
\* Catalog entries.  Two of them share program, version and README (and so
\* the combined search text) and differ in binary_url; two others differ in
\* name and share the destination path.
Descriptors ==
    { [program |-> <<"A", " ", "B">>, version |-> "1", README |-> "r", binary_url |-> "u1"],
      [program |-> <<"A", " ", "B">>, version |-> "1", README |-> "r", binary_url |-> "u2"],
      [program |-> <<"A", "_", "B">>, version |-> "1", README |-> "r", binary_url |-> "u1"],
      [program |-> <<"C">>, version |-> "1", README |-> "r", binary_url |-> "u1"] }

SeqsUpTo(S, n) == UNION { [1..k -> S] : k \in 0..n }

Catalogs == SeqsUpTo(Descriptors, MaxCatalog)

\* The search strings the user types.
SampleQueries ==
    { <<>>, <<" ">>, <<" ", "Q">>, <<"q">>, <<"!">> }

\* Those typed while the launch handlers are explored: a blank one, one that
\* matches and one that matches nothing.
LaunchQueries == { <<" ">>, <<" ", "Q">>, <<"!">> }

\* str(e) of the exceptions Downloader.run catches.
FailureMessages == { "connection reset", "No space left on device" }

\* The content-length values a response reports (0: the header is missing)
\* and the lengths of the chunks iter_content yields, in units.
ContentLengths == { 0, 2 }
ChunkLengths == { 0, 1 }

(***************************************************************************)
(* String helpers.                                                         *)
(***************************************************************************)
IsSpace(c) == c = " "

RECURSIVE lstrip(_)
lstrip(s) == IF s # <<>> /\ IsSpace(Head(s)) THEN lstrip(Tail(s)) ELSE s

RECURSIVE rstrip(_)
rstrip(s) ==
    IF s # <<>> /\ IsSpace(s[Len(s)]) THEN rstrip(SubSeq(s, 1, Len(s) - 1)) ELSE s

\* str.strip()
strip(s) == rstrip(lstrip(s))

IsAlnum(c) == c \in { "A", "B", "C", "Q", "q", "x", "1", "r" }

lower(c) == CASE c = "Q" -> "q" [] c = "A" -> "a" [] c = "B" -> "b" [] c = "C" -> "c"
              [] OTHER -> c

\* rapidfuzz.utils.default_process: lower-case, every non-alphanumeric
\* character to a space, then strip.
default_process(s) ==
    strip([i \in 1..Len(s) |-> IF IsAlnum(s[i]) THEN lower(s[i]) ELSE " "])

\* program_name.replace(' ', '_')
replace(s) == [i \in 1..Len(s) |-> IF s[i] = " " THEN "_" ELSE s[i]]

\* fr".\bin\{program_name.replace(' ', '_')}.exe"
binary_path(program_name) == <<".\\bin\\">> \o replace(program_name) \o <<".exe">>

\* os.path.dirname of a binary path
dirname(path) == ".\\bin"

\* f"{program['program']} {program['version']} {program['README']}"
combined_text(program) ==
    program.program \o <<" ", program.version, " ", program.README>>

AllPaths == { binary_path(d.program) : d \in Descriptors }
AllTexts == { combined_text(d) : d \in Descriptors }
ProcessedQueries == { default_process(q) : q \in SampleQueries } \ { <<>> }
ScoreValues == { 59, 60, 100 }
Scorers == [ProcessedQueries \X AllTexts -> ScoreValues]


(***************************************************************************)
(* SearchIndex: process.extract with fuzz.WRatio, and filter_programs.     *)
(***************************************************************************)
\* The score process.extract gives one choice: the processor is applied to
\* the query, and WRatio is 0 when the processed query is empty.
score(w, text, choice) ==
    LET q == default_process(text)
    IN  IF q = <<>> THEN 0 ELSE w[<<q, choice>>]

\* The index extract ranks first among I: the highest score, and among equal
\* scores the lowest index.
best(sc, I) ==
    CHOOSE i \in I : \A j \in I : sc[i] > sc[j] \/ (sc[i] = sc[j] /\ i <= j)

RECURSIVE ranked(_, _)
ranked(sc, I) ==
    IF I = {} THEN <<>>
    ELSE LET b == best(sc, I) IN <<b>> \o ranked(sc, I \ {b})

\* process.extract(text, choice_texts, scorer=fuzz.WRatio,
\* processor=utils.default_process, limit=len(choice_texts)): every choice
\* as (choice, score, index), by descending score.
extract(w, text, choice_texts) ==
    LET sc == [i \in 1..Len(choice_texts) |-> score(w, text, choice_texts[i])]
        order == ranked(sc, 1..Len(choice_texts))
    IN  [k \in 1..Len(choice_texts) |->
            [choice |-> choice_texts[order[k]],
             score |-> sc[order[k]],
             index |-> order[k] - 1]]

\* list.index(x): the first position of x, 0-based.
index(list, x) ==
    (CHOOSE i \in 1..Len(list) : list[i] = x /\ \A j \in 1..(i - 1) : list[j] # x) - 1

\* The score from which an entry is kept.
Threshold == 60

\* The loop of filter_programs over the results.
keep(result) == result.score >= Threshold

filtered_programs(w, choices, text) ==
    LET choice_texts == [i \in 1..Len(choices) |-> choices[i].text]
        results == extract(w, text, choice_texts)
        kept == SelectSeq(results, keep)
    IN  [k \in 1..Len(kept) |-> choices[index(choice_texts, kept[k].choice) + 1].program]

\* filter_result with the test of line 310 made on the text as typed.
filter_result_unstripped(w, original, choices, text) ==
    IF text = <<>> THEN original
    ELSE filtered_programs(w, choices, text)

\* The new value of self.program_data.
filter_result(w, original, choices, text) ==
    IF strip(text) = <<>> THEN original
    ELSE filtered_programs(w, choices, text)

\* load_data: the search choices built from the catalog.
build_search_choices(original) ==
    [i \in 1..Len(original) |-> [text |-> combined_text(original[i]), program |-> original[i]]]

\* filter_programs filtering self.original_program_data in place instead of
\* building a new list.
filter_programs_in_place(text) ==
    /\ ~crashed
    /\ text # search_text
    /\ search_text' = text
    /\ program_data' = filter_result(wratio, original_program_data, search_choices, text)
    /\ original_program_data' = program_data'
    /\ current_row' = IF program_data' # <<>> THEN 0 ELSE -1
    /\ UNCHANGED <<search_choices, wratio, load, uiVars, jobVars, diskVars, logs, spawned,
                   launches, session, crashed>>

\* filter_programs(text), the textChanged handler of the search input: the
\* user changed the text to `text`.  The list widget is refilled from
\* program_data and row 0 made current when there is one.
filter_programs(text) ==
    /\ ~crashed
    /\ text # search_text
    /\ search_text' = text
    /\ program_data' = filter_result(wratio, original_program_data, search_choices, text)
    /\ current_row' = IF program_data' # <<>> THEN 0 ELSE -1
    /\ UNCHANGED <<catalogVars, uiVars, jobVars, diskVars, logs, spawned, launches, session, crashed>>

\* on_program_selected(index) after the user makes another row current: the
\* handler renders the README and keeps the model's state.
on_program_selected(row) ==
    /\ ~crashed
    /\ 0 <= row /\ row < Len(program_data)
    /\ row # current_row
    /\ current_row' = row
    /\ UNCHANGED <<catalogVars, program_data, search_text, uiVars, jobVars, diskVars,
                   logs, spawned, launches, session, crashed>>


(***************************************************************************)
(* Records.                                                                *)
(***************************************************************************)
\* self.downloader = None
NoDownloader == [id |-> 0, url |-> "", filename |-> <<>>]

\* No Downloader thread is running.
IdleThread ==
    [pc |-> "idle", job |-> 0, url |-> "", filename |-> <<>>,
     total_size |-> 0, downloaded_size |-> 0, chunks |-> 0]

\* A signal of Downloader (or QThread.finished) with its argument.
Signal(sig, n, msg, job) == [sig |-> sig, n |-> n, msg |-> msg, job |-> job]

\* One line of the log: the fixed text and the formatted value.
Line(text, arg) == [text |-> text, arg |-> arg]

\* The history record of one launch_program call: whether the row was valid,
\* the destination path, whether it existed, what became of the directory,
\* the Downloaders created and started, whether a job was running at the
\* call, the terminal signal handled and whether finished was handled, and
\* the selected row and the length of the active view at the call.
Session(id, valid, path, existed, mkdir, created, started) ==
    [id |-> id, valid |-> valid, path |-> path, existed |-> existed, mkdir |-> mkdir,
     created |-> created, started |-> started, busy |-> downloader.id # 0,
     outcome |-> "", finished |-> FALSE,
     row |-> current_row, rows |-> Len(program_data)]

\* No launch_program call yet.
NoSession ==
    [id |-> 0, valid |-> FALSE, path |-> <<>>, existed |-> FALSE, mkdir |-> "",
     created |-> 0, started |-> 0, busy |-> FALSE, outcome |-> "", finished |-> FALSE,
     row |-> -1, rows |-> 0]

\* One subprocess.Popen call: ok is FALSE when it raised.
Spawn(path, ok, sid) == [path |-> path, ok |-> ok, session |-> sid]

\* The test of line 364 with its sense inverted.
exists_inverted(path) == fs[path] = -1

\* os.path.exists(path)
exists(path) == fs[path] # -1

(***************************************************************************)
(* Downloader.run, on the worker thread.                                   *)
(***************************************************************************)
\* signal.emit from the worker thread: queued to the foreground.
emit(ev) ==
    /\ queue' = Append(queue, ev)
    /\ emitted' = IF ev.job = downloader.id THEN Append(emitted, ev) ELSE emitted

\* run has returned: its locals are gone.
returned == [IdleThread EXCEPT !.pc = "finished", !.job = thread.job]

\* except Exception as e: self.failed.emit(str(e)); run returns.
run_except(msg) ==
    /\ emit(Signal("failed", 0, msg, thread.job))
    /\ thread' = returned

\* requests.get, raise_for_status and the content-length header: the
\* response arrives and setTotalProgress is emitted, or an exception is raised.
run_get ==
    /\ ~crashed
    /\ thread.pc = "get"
    /\ \/ \E n \in ContentLengths :
            /\ thread' = [thread EXCEPT !.pc = "open", !.total_size = n]
            /\ emit(Signal("setTotalProgress", n, "", thread.job))
       \/ \E msg \in FailureMessages : run_except(msg)
    /\ UNCHANGED <<catalogVars, viewVars, uiVars, downloader, handled, diskVars, logs,
                   spawned, launches, session, crashed>>

\* open(self._filename, 'wb'): the file is created empty, or open raises.
run_open ==
    /\ ~crashed
    /\ thread.pc = "open"
    /\ \/ /\ thread' = [thread EXCEPT !.pc = "iter"]
          /\ fs' = [fs EXCEPT ![thread.filename] = 0]
          /\ incomplete' = incomplete \cup {thread.filename}
          /\ UNCHANGED <<queue, emitted>>
       \/ /\ \E msg \in FailureMessages : run_except(msg)
          /\ UNCHANGED <<fs, incomplete>>
    /\ UNCHANGED <<catalogVars, viewVars, uiVars, downloader, handled, bin_dir, logs,
                   spawned, launches, session, crashed>>

\* One turn of the loop over response.iter_content: a chunk of length c
\* arrives; a non-empty chunk is written and counted, and the count emitted.
run_chunk ==
    /\ ~crashed
    /\ thread.pc = "iter"
    /\ thread.chunks < MaxChunks
    /\ \E c \in ChunkLengths :
          IF c > 0
          THEN /\ thread' = [thread EXCEPT !.chunks = @ + 1, !.downloaded_size = @ + c]
               /\ fs' = [fs EXCEPT ![thread.filename] = @ + c]
               /\ emit(Signal("setCurrentProgress", thread.downloaded_size + c, "",
                              thread.job))
          ELSE /\ thread' = [thread EXCEPT !.chunks = @ + 1]
               /\ UNCHANGED <<fs, queue, emitted>>
    /\ UNCHANGED <<catalogVars, viewVars, uiVars, downloader, handled, bin_dir, incomplete, logs,
                   spawned, launches, session, crashed>>

\* run_chunk_raises with the loop going on after failed was emitted.
run_chunk_raises_continues ==
    /\ ~crashed
    /\ thread.pc = "iter"
    /\ \E msg \in FailureMessages : emit(Signal("failed", 0, msg, thread.job))
    /\ UNCHANGED <<catalogVars, viewVars, uiVars, downloader, thread, handled, diskVars,
                   logs, spawned, launches, session, crashed>>

\* The read of the next chunk, or its write, raises: the file stays as written.
run_chunk_raises ==
    /\ ~crashed
    /\ thread.pc = "iter"
    /\ \E msg \in FailureMessages : run_except(msg)
    /\ UNCHANGED <<catalogVars, viewVars, uiVars, downloader, handled, diskVars, logs,
                   spawned, launches, session, crashed>>

\* The response body ends: the file is closed, written to the end, and
\* succeeded is emitted.
run_succeeded ==
    /\ ~crashed
    /\ thread.pc = "iter"
    /\ emit(Signal("succeeded", 0, "", thread.job))
    /\ thread' = returned
    /\ incomplete' = incomplete \ {thread.filename}
    /\ UNCHANGED <<catalogVars, viewVars, uiVars, downloader, handled, fs, bin_dir, logs,
                   spawned, launches, session, crashed>>

\* thread_finished with the thread ending and finished never emitted.
thread_finished_silent ==
    /\ ~crashed
    /\ thread.pc = "finished"
    /\ thread' = IdleThread
    /\ UNCHANGED <<catalogVars, viewVars, uiVars, downloader, queue, emitted, handled,
                   diskVars, logs, spawned, launches, session, crashed>>

\* run has returned: QThread emits finished and the thread ends.
thread_finished ==
    /\ ~crashed
    /\ thread.pc = "finished"
    /\ emit(Signal("finished", 0, "", thread.job))
    /\ thread' = IdleThread
    /\ UNCHANGED <<catalogVars, viewVars, uiVars, downloader, handled, diskVars, logs,
                   spawned, launches, session, crashed>>


(***************************************************************************)
(* programLauncher: the launch handlers, on the foreground.                *)
(***************************************************************************)
\* launch_existing_program without its except clause: a Popen that raises
\* leaves the handler and nothing more is logged.
launch_existing_program_uncaught(lg, sp, path, sid) ==
    \E ok \in BOOLEAN :
        /\ spawned' = Append(sp, Spawn(path, ok, sid))
        /\ logs' = IF ok
                   THEN Append(Append(lg, Line("Starting: ", path)),
                               Line(" started successfully", path))
                   ELSE Append(lg, Line("Starting: ", path))

\* launch_existing_program(binary_path) called with the log lg and the Popen
\* calls sp: Popen starts the process, or raises and the handler logs the error.
launch_existing_program(lg, sp, path, sid) ==
    \E ok \in BOOLEAN :
        /\ spawned' = Append(sp, Spawn(path, ok, sid))
        /\ logs' = Append(Append(lg, Line("Starting: ", path)),
                          IF ok THEN Line(" started successfully", path)
                          ELSE Line("Error starting: ", <<"OSError">>))

\* The Downloader that self.downloader refers to loses its last reference
\* while its thread still runs: Qt aborts the process.
destroyed_running == downloader.id # 0 /\ thread.pc # "idle"

\* launch_program, lines 372-386: the controls are set, the Downloader is
\* created, assigned, connected and started.
start_download(lg, sid, path, binary_url, mkdir) ==
    /\ logs' = lg
    /\ bin_dir' = TRUE
    /\ progress_value' = 0
    /\ launch_enabled' = FALSE
    /\ launch_text' = "Downloading..."
    /\ spawned' = <<>>
    /\ UNCHANGED <<progress_maximum, fs, incomplete>>
    /\ IF destroyed_running
       THEN /\ crashed' = TRUE
            /\ session' = Session(sid, TRUE, path, fs[path] # -1, mkdir, 1, 0)
            /\ UNCHANGED jobVars
       ELSE /\ downloader' = [id |-> sid, url |-> binary_url, filename |-> path]
            /\ thread' = [IdleThread EXCEPT !.pc = "get", !.job = sid,
                                            !.url = binary_url, !.filename = path]
            /\ session' = Session(sid, TRUE, path, fs[path] # -1, mkdir, 1, 1)
            /\ emitted' = <<>>
            /\ handled' = <<>>
            \* signals of a Downloader that was replaced after its thread ended
            \* are delivered or discarded with it
            /\ queue' \in {queue, <<>>}
            /\ UNCHANGED crashed

\* no_program_selected returning without a word.
no_program_selected_silent(lg) == lg

\* launch_program, lines 356-358: the row is out of range, the handler logs
\* it and returns.
no_program_selected(lg) == Append(lg, Line("No program selected", <<>>))

\* launch_program, the clicked handler of the launch button.
launch_program ==
    LET sid == launches + 1
        pressed == <<Line("Launch button pressed", <<>>)>>
    IN
    /\ ~crashed
    /\ launches < MaxLaunches
    /\ launches' = sid
    /\ UNCHANGED <<catalogVars, viewVars>>
    /\ IF ~(0 <= current_row /\ current_row < Len(program_data))
       THEN /\ logs' = no_program_selected(pressed)
            /\ session' = Session(sid, FALSE, <<>>, FALSE, "", 0, 0)
            /\ spawned' = <<>>
            /\ UNCHANGED <<uiVars, jobVars, diskVars, crashed>>
       ELSE
         LET program == program_data[current_row + 1]
             program_name == program.program
             binary_url == program.binary_url
             path == binary_path(program_name)
             starting == Append(pressed, Line("Starting download of ", program_name))
         IN
         IF ~exists(path)
         THEN \/ /\ bin_dir
                 /\ start_download(starting, sid, path, binary_url, "exists")
              \/ /\ ~bin_dir
                 /\ start_download(Append(starting, Line("Created directory: ", <<dirname(path)>>)),
                                   sid, path, binary_url, "created")
              \/ \* os.makedirs raises: the exception leaves the handler
                 /\ ~bin_dir
                 /\ logs' = starting
                 /\ session' = Session(sid, TRUE, path, fs[path] # -1, "raised", 0, 0)
                 /\ spawned' = <<>>
                 /\ UNCHANGED <<uiVars, jobVars, diskVars, crashed>>
         ELSE /\ launch_existing_program(pressed, <<>>, path, sid)
              /\ session' = Session(sid, TRUE, path, fs[path] # -1, "", 0, 0)
              /\ UNCHANGED <<uiVars, jobVars, diskVars, crashed>>

\* click_launch with the click reaching the handler of a disabled button.
click_launch_disabled == launch_program

\* The user clicks the launch button: a disabled button emits no click.
click_launch ==
    /\ launch_enabled
    /\ launch_program

\* launch_program called while the button is disabled (headless use).
request_launch ==
    /\ ~launch_enabled
    /\ launch_program

\* The event loop takes the oldest queued signal.
next_signal(q) == Head(q)

\* The queue after a signal was taken.
rest(q) == Tail(q)

\* The foreground takes signal sig from the queue.
take(sig) ==
    /\ ~crashed
    /\ queue # <<>>
    /\ next_signal(queue).sig = sig
    /\ queue' = rest(queue)
    /\ handled' = IF next_signal(queue).job = downloader.id
                  THEN Append(handled, next_signal(queue)) ELSE handled
    /\ UNCHANGED <<thread, emitted>>

\* setTotalProgress -> self.progress_bar.setMaximum
setMaximum ==
    /\ take("setTotalProgress")
    /\ progress_maximum' = next_signal(queue).n
    /\ UNCHANGED <<catalogVars, viewVars, launch_enabled, launch_text, progress_value,
                   downloader, diskVars, logs, spawned, launches, session, crashed>>

\* setCurrentProgress -> self.progress_bar.setValue
setValue ==
    /\ take("setCurrentProgress")
    /\ progress_value' = next_signal(queue).n
    /\ UNCHANGED <<catalogVars, viewVars, launch_enabled, launch_text, progress_maximum,
                   downloader, diskVars, logs, spawned, launches, session, crashed>>

\* The path download_succeeded launches: of the row that is current now.
succeeded_path == binary_path(program_data[current_row + 1].program)

\* download_succeeded
download_succeeded ==
    LET job == next_signal(queue).job
        downloaded == Append(logs, Line("Binary downloaded successfully", <<>>))
    IN
    /\ take("succeeded")
    /\ session' = IF job = session.id THEN [session EXCEPT !.outcome = "succeeded"]
                  ELSE session
    /\ IF 0 <= current_row /\ current_row < Len(program_data)
       THEN launch_existing_program(downloaded, spawned, succeeded_path, job)
       ELSE /\ logs' = downloaded
            /\ UNCHANGED spawned
    /\ UNCHANGED <<catalogVars, viewVars, uiVars, downloader, diskVars, launches, crashed>>

\* download_failed without its log line.
download_failed_unlogged ==
    /\ take("failed")
    /\ launch_text' = "Launch Failed"
    /\ session' = IF next_signal(queue).job = session.id
                  THEN [session EXCEPT !.outcome = "failed"] ELSE session
    /\ UNCHANGED <<catalogVars, viewVars, launch_enabled, progress_maximum, progress_value,
                   downloader, diskVars, logs, spawned, launches, crashed>>

\* download_failed enabling the launch button for the retry itself.
download_failed_enables ==
    /\ take("failed")
    /\ logs' = Append(logs, Line("Download failed: ", <<next_signal(queue).msg>>))
    /\ launch_text' = "Launch Failed"
    /\ launch_enabled' = TRUE
    /\ session' = IF next_signal(queue).job = session.id
                  THEN [session EXCEPT !.outcome = "failed"] ELSE session
    /\ UNCHANGED <<catalogVars, viewVars, progress_maximum, progress_value,
                   downloader, diskVars, spawned, launches, crashed>>

\* download_failed(error_message)
download_failed ==
    LET job == next_signal(queue).job
        error_message == next_signal(queue).msg
    IN
    /\ take("failed")
    /\ logs' = Append(logs, Line("Download failed: ", <<error_message>>))
    /\ launch_text' = "Launch Failed"
    /\ session' = IF job = session.id THEN [session EXCEPT !.outcome = "failed"]
                  ELSE session
    /\ UNCHANGED <<catalogVars, viewVars, launch_enabled, progress_maximum, progress_value,
                   downloader, diskVars, spawned, launches, crashed>>

\* download_finished
download_finished ==
    LET job == next_signal(queue).job
    IN
    /\ take("finished")
    /\ launch_enabled' = TRUE
    /\ launch_text' = "Launch"
    /\ session' = IF job = session.id THEN [session EXCEPT !.finished = TRUE]
                  ELSE session
    /\ IF downloader.id # 0
       THEN /\ crashed' = destroyed_running
            /\ downloader' = NoDownloader
       ELSE UNCHANGED <<downloader, crashed>>
    /\ UNCHANGED <<catalogVars, viewVars, progress_maximum, progress_value, diskVars,
                   launches, logs, spawned>>

(***************************************************************************)
(* programLauncher.load_data, called by __init__.                          *)
(***************************************************************************)
\* The value that stands for a key the JSON object does not have.
Missing == "<missing>"

\* program[field] raises KeyError unless the object has the key.
has_key(program, field) == program[field] # Missing

\* Objects of the document that lack a key: one without "version" and one
\* without "binary_url".
MalformedEntries ==
    { [program |-> <<"C">>, version |-> Missing, README |-> "r", binary_url |-> "u1"],
      [program |-> <<"C">>, version |-> "1", README |-> "r", binary_url |-> Missing] }

\* What response.json() returns: one object, or an array of objects.
Documents ==
    [kind : {"object"}, value : Descriptors \cup MalformedEntries]
        \cup [kind : {"array"}, value : SeqsUpTo(Descriptors \cup MalformedEntries, 2)]

\* The entries the loop of lines 297-300 appends before it ends or raises
\* KeyError: those before the first object that lacks a key the text reads.
search_choices_built(data) ==
    LET raises == { i \in DOMAIN data :
                      \E field \in {"program", "version", "README"} : ~has_key(data[i], field) }
        n == IF raises = {} THEN Len(data)
             ELSE (CHOOSE i \in raises : \A j \in raises : i <= j) - 1
    IN build_search_choices(SubSeq(data, 1, n))

\* load_data: the request, the status check or the parse raises and nothing
\* is assigned; else the lists are assigned, the search entries are built,
\* and the first row is selected unless the loop raised KeyError on the way.
\* load_data catches nothing.
load_data ==
    /\ load = "pending"
    /\ \/ /\ load' = "failed"
          /\ UNCHANGED <<original_program_data, search_choices, program_data, current_row>>
       \/ \E document \in Documents :
            LET data == IF document.kind = "object" THEN <<document.value>>
                        ELSE document.value
            IN
            /\ program_data' = data
            /\ original_program_data' = data
            /\ search_choices' = search_choices_built(data)
            /\ IF Len(search_choices') = Len(data)
               THEN /\ load' = "loaded"
                    /\ current_row' = IF data # <<>> THEN 0 ELSE -1
               ELSE /\ load' = "failed"
                    /\ UNCHANGED current_row
    /\ UNCHANGED <<wratio, search_text, uiVars, jobVars, diskVars, logs, spawned,
                   launches, session, crashed>>

(***************************************************************************)
(* The specifications.                                                     *)
(***************************************************************************)
\* The files that are on disk when the application starts.
InitDisk ==
    /\ fs \in [AllPaths -> {-1, 1}]
    /\ bin_dir \in BOOLEAN
    /\ (\E p \in AllPaths : fs[p] # -1) => bin_dir
    /\ incomplete = {}

\* programLauncher.__init__ after a successful load_data.
InitWindow ==
    /\ search_choices = build_search_choices(original_program_data)
    /\ program_data = original_program_data
    /\ current_row = IF program_data # <<>> THEN 0 ELSE -1
    /\ search_text = <<>>
    /\ launch_enabled = TRUE
    /\ launch_text = "Launch"
    /\ progress_maximum = 100
    /\ progress_value = -1
    /\ downloader = NoDownloader
    /\ thread = IdleThread
    /\ queue = <<>>
    /\ logs = <<>>
    /\ spawned = <<>>
    /\ launches = 0
    /\ session = NoSession
    /\ emitted = <<>>
    /\ handled = <<>>
    /\ crashed = FALSE

\* The catalogs the launch handlers are explored with: two programs with
\* different destination paths, two with the same one, and two entries with
\* the same name and different URLs.
LaunchCatalogs ==
    { c \in [1..2 -> Descriptors] :
        \/ c[1].program = <<"C">> /\ c[2].program = <<"A", "_", "B">>
        \/ c[1].program = <<"A", " ", "B">> /\ c[1].binary_url = "u1"
           /\ c[2].program = <<"A", "_", "B">>
        \/ c[1].program = <<"A", " ", "B">> /\ c[1].binary_url = "u1"
           /\ c[2].program = <<"A", " ", "B">> /\ c[2].binary_url = "u2" }

\* The scorer they are explored with: for the query "q" the entry "A_B"
\* scores 100, "A B" scores 60 and "C" 59; another query matches nothing.
LaunchScorer ==
    [p \in ProcessedQueries \X AllTexts |->
        IF p[1] # <<"q">> THEN 59
        ELSE IF p[2][1] = "C" THEN 59
        ELSE IF p[2][2] = "_" THEN 100 ELSE 60]

Init ==
    /\ original_program_data \in LaunchCatalogs
    /\ wratio = LaunchScorer
    /\ load = "loaded"
    /\ InitDisk
    /\ InitWindow

\* The user's input.
User ==
    \/ \E text \in LaunchQueries : filter_programs(text)
    \/ \E row \in 0..(Len(original_program_data) - 1) : on_program_selected(row)
    \/ click_launch

\* The Downloader thread.
Worker ==
    \/ run_get
    \/ run_open
    \/ run_chunk
    \/ run_chunk_raises
    \/ run_succeeded
    \/ thread_finished

\* The foreground's handling of queued signals.
Foreground ==
    \/ setMaximum
    \/ setValue
    \/ download_succeeded
    \/ download_failed
    \/ download_finished

Next == User \/ Worker \/ Foreground

\* The application driven through its window.
Spec == Init /\ [][Next]_vars

\* The same with the scheduling the claim about termination assumes: the
\* Downloader thread is run by the operating system and each call it makes
\* returns, and the Qt event loop delivers every queued signal.
SpecLive == Spec /\ WF_vars(Worker) /\ WF_vars(Foreground)

\* The same with launch_program also called while the button is disabled.
NextHeadless == Next \/ request_launch

SpecHeadless == Init /\ [][NextHeadless]_vars

\* The application from before load_data: the search runs once the window
\* is there; an exception that leaves __init__ ends the program.
InitLoad ==
    /\ original_program_data = <<>>
    /\ wratio = LaunchScorer
    /\ load = "pending"
    /\ fs = [p \in AllPaths |-> -1]
    /\ bin_dir = FALSE
    /\ incomplete = {}
    /\ InitWindow

NextLoad ==
    \/ load_data
    \/ load = "loaded" /\ \E text \in SampleQueries : filter_programs(text)
    \/ load = "loaded" /\ \E row \in 0..1 : on_program_selected(row)

SpecLoad == InitLoad /\ [][NextLoad]_vars

\* The search alone, over every catalog and every scorer.
InitSearch ==
    /\ original_program_data \in Catalogs
    /\ wratio \in Scorers
    /\ load = "loaded"
    /\ fs = [p \in AllPaths |-> -1]
    /\ bin_dir = FALSE
    /\ incomplete = {}
    /\ InitWindow

NextSearch ==
    \/ \E text \in SampleQueries : filter_programs(text)
    \/ \E row \in 0..(MaxCatalog - 1) : on_program_selected(row)

SpecSearch == InitSearch /\ [][NextSearch]_vars


(***************************************************************************)
(* Properties.                                                             *)
(***************************************************************************)
\* No session is active: no Downloader, and the launch control is enabled.
Idle == downloader = NoDownloader /\ thread.pc = "idle" /\ launch_enabled

\* The signals of Downloader among seq (QThread's finished left out).
job_signal(ev) == ev.sig # "finished"
job_signals(seq) == SelectSeq(seq, job_signal)

IsTerminal(ev) == ev.sig \in {"succeeded", "failed"}

\* The lines of the log with the given text.
lines_with(text) == { i \in DOMAIN logs : logs[i].text = text }

\* C1: when the download of a session has succeeded, exactly one process
\* start was made and its path is the destination path that launch_program
\* computed for that session, whatever searches and selections were handled
\* while the download ran.
C1_SpawnsRequestedPath ==
    (session.started = 1 /\ session.outcome = "succeeded") =>
        /\ Len(spawned) = 1
        /\ spawned[1].path = session.path
        /\ spawned[1].session = session.id

\* C2: at most one Downloader job is in flight: no Downloader is created
\* while self.downloader holds a job whose finished signal is not handled
\* yet, the running thread is the one of self.downloader, and every queued
\* signal is of that job.
C2_AtMostOneJob ==
    /\ session.created > 0 => ~session.busy
    /\ thread.pc # "idle" => downloader.id = thread.job
    /\ \A i \in DOMAIN queue : queue[i].job = downloader.id
    /\ ~crashed

\* C2 witness: a second launch has its download in flight after searches.
C2_Witness ==
    /\ launches = 2
    /\ session.started = 1
    /\ thread.pc = "iter"
    /\ queue # <<>>
    /\ search_text # <<>>

\* C3 as stated: for a valid selection, an existing destination file means
\* no Downloader and an immediate process start; an absent one means exactly
\* one Downloader started and no process start before its terminal signal.
C3_ExistsOrDownloads ==
    session.valid =>
        IF session.existed
        THEN /\ session.created = 0 /\ session.started = 0
             /\ spawned # <<>> /\ spawned[1].path = session.path
        ELSE /\ session.started = 1
             /\ session.outcome = "" => spawned = <<>>

\* C3 amended: as C3, and when the file is absent and creating the
\* destination directory fails, no Downloader is started and no process.
C3_ExistsOrDownloadsUnlessMkdirFails ==
    session.valid =>
        IF session.existed
        THEN /\ session.created = 0 /\ session.started = 0
             /\ spawned # <<>> /\ spawned[1].path = session.path
        ELSE IF session.mkdir = "raised"
        THEN session.created = 0 /\ session.started = 0 /\ spawned = <<>>
        ELSE /\ session.started = 1
             /\ session.outcome = "" => spawned = <<>>

\* C3 witness: the second launch finds the file that the first one
\* downloaded and starts it without a Downloader.
C3_Witness ==
    /\ launches = 2
    /\ session.valid /\ session.existed
    /\ session.started = 0
    /\ spawned # <<>>
    /\ fs[session.path] = 2

\* C4: once the failed signal of a session's job is handled, its message is
\* in the log, no process start was made for the session, and when finished
\* is handled the launcher is idle with the launch control enabled.
C4_FailedIsLoggedAndIdle ==
    (session.started = 1 /\ session.outcome = "failed") =>
        /\ \E i \in DOMAIN emitted :
              /\ emitted[i].sig = "failed"
              /\ \E k \in lines_with("Download failed: ") : logs[k].arg = <<emitted[i].msg>>
        /\ spawned = <<>>
        /\ session.finished => Idle

\* C4 witness: a download failed after a chunk was written, and its
\* finished signal is handled.
C4_Witness ==
    /\ session.started = 1 /\ session.outcome = "failed" /\ session.finished
    /\ fs[session.path] = 1
    /\ Idle

\* C5: the signals a job emits are setTotalProgress at most once and before
\* every setCurrentProgress, then one terminal signal (succeeded or failed)
\* and nothing after it; a thread that has returned has emitted its terminal
\* signal; the foreground handles the signals in the order of emission.
C5_SignalOrder ==
    LET E == job_signals(emitted)
    IN  /\ \A i, j \in DOMAIN E :
              /\ (E[i].sig = "setTotalProgress" /\ E[j].sig = "setTotalProgress") => i = j
              /\ (E[i].sig = "setTotalProgress" /\ E[j].sig # "setTotalProgress") => i < j
              /\ IsTerminal(E[i]) => i = Len(E)
        /\ (downloader.id # 0 /\ thread.pc \in {"finished", "idle"}) =>
              (E # <<>> /\ IsTerminal(E[Len(E)]))
        /\ downloader.id # 0 => handled \o queue = emitted

\* C5 witness: the total, two progress signals and succeeded are handled.
C5_Witness ==
    /\ Len(handled) = 4
    /\ handled[1].sig = "setTotalProgress"
    /\ handled[3].sig = "setCurrentProgress"
    /\ handled[4].sig = "succeeded"

\* C6: a launch_program call made while a job is in flight creates no
\* Downloader and makes no process start.
C6_RejectsWhileBusy ==
    session.busy =>
        /\ session.created = 0 /\ session.started = 0
        /\ \A i \in DOMAIN spawned : spawned[i].session # session.id

\* C7: after succeeded is emitted the destination file exists and, when the
\* reported total is not 0, its size is that total and the last progress
\* value; the progress values increase strictly.
C7_SizeIsTotal ==
    LET E == job_signals(emitted)
        P == SelectSeq(E, LAMBDA ev : ev.sig = "setCurrentProgress")
    IN  (downloader.id # 0 /\ E # <<>> /\ E[Len(E)].sig = "succeeded") =>
            /\ fs[downloader.filename] # -1
            /\ \A i \in DOMAIN E :
                  (E[i].sig = "setTotalProgress" /\ E[i].n # 0) =>
                      /\ fs[downloader.filename] = E[i].n
                      /\ P # <<>> /\ P[Len(P)].n = E[i].n
            /\ \A i \in 1..(Len(P) - 1) : P[i].n < P[i + 1].n

\* C8: when creating the destination directory fails, no Downloader is
\* started, no process start is made, the failure is in the log, and the
\* launcher is idle with the launch control enabled.
C8_MkdirFailureIsLogged ==
    session.mkdir = "raised" =>
        /\ session.created = 0 /\ session.started = 0
        /\ spawned = <<>>
        /\ \E i \in DOMAIN logs :
              logs[i].text \notin {"Launch button pressed", "Starting download of "}
        /\ Idle

\* C9: every process start is logged, "started successfully" when Popen
\* returned and "Error starting" when it raised, and the launcher is idle
\* afterwards: at once when the file existed, and when finished is handled
\* after a download.
C9_SpawnOutcomeLoggedAndIdle ==
    \A i \in DOMAIN spawned :
        /\ \E k \in 1..(Len(logs) - 1) :
              /\ logs[k] = Line("Starting: ", spawned[i].path)
              /\ logs[k + 1] = IF spawned[i].ok
                               THEN Line(" started successfully", spawned[i].path)
                               ELSE Line("Error starting: ", <<"OSError">>)
        /\ session.started = 0 => Idle
        /\ (session.started = 1 /\ session.finished) => Idle

\* C9 witness: Popen raised after a successful download and the finished
\* signal is handled.
C9_Witness ==
    /\ session.started = 1 /\ session.outcome = "succeeded" /\ session.finished
    /\ spawned # <<>> /\ ~spawned[1].ok
    /\ Idle

\* C10: for a query that is not blank the active view holds exactly the
\* catalog entries whose search text scores at least 60.
C10_ExactlyAboveThreshold ==
    strip(search_text) # <<>> =>
        \A i \in DOMAIN original_program_data :
            (\E k \in DOMAIN program_data : program_data[k] = original_program_data[i])
            <=> score(wratio, search_text, combined_text(original_program_data[i])) >= 60


\* The score of a catalog entry for the text in the search input.
entry_score(program) == score(wratio, search_text, combined_text(program))

\* The text in the search input is empty or holds only spaces.
IsBlank(text) == \A i \in DOMAIN text : text[i] = " "

\* C11: for a query that is not blank the active view is in descending
\* order of score, and two of its entries with equal scores are in the order
\* they have in the original catalog.
C11_DescendingAndStable ==
    ~IsBlank(search_text) =>
        \A k, l \in DOMAIN program_data :
            k < l =>
                /\ entry_score(program_data[k]) >= entry_score(program_data[l])
                /\ entry_score(program_data[k]) = entry_score(program_data[l]) =>
                      \E i, j \in DOMAIN original_program_data :
                          /\ i <= j
                          /\ original_program_data[i] = program_data[k]
                          /\ original_program_data[j] = program_data[l]

\* C12: while the text of the search input is empty or only whitespace the
\* active view is the original catalog: same length, entries and order.
C12_BlankResets ==
    IsBlank(search_text) => program_data = original_program_data

\* C12 witness: a query of one space was handled on a catalog of three
\* entries.
C12_Witness ==
    /\ search_text = <<" ">>
    /\ Len(original_program_data) = 3
    /\ program_data = original_program_data

\* C13: the entries of the active view are entries of the original catalog,
\* each catalog position taken at most once.
C13_ViewWithinCatalog ==
    \E f \in [DOMAIN program_data -> DOMAIN original_program_data] :
        /\ \A k \in DOMAIN program_data : original_program_data[f[k]] = program_data[k]
        /\ \A k, l \in DOMAIN program_data : f[k] = f[l] => k = l

\* C19: no step after the load changes the original catalog or the search
\* entries, and the search entries stay one per original entry, at the same
\* index.
C19_CatalogIsFrozen ==
    /\ [](/\ Len(search_choices) = Len(original_program_data)
          /\ \A i \in DOMAIN search_choices :
                /\ search_choices[i].program = original_program_data[i]
                /\ search_choices[i].text = combined_text(original_program_data[i]))
    /\ [][/\ original_program_data' = original_program_data
          /\ search_choices' = search_choices]_vars

\* C19 witness: a search has replaced the active view of a catalog of three
\* entries by a shorter one.
C19_Witness ==
    /\ ~IsBlank(search_text)
    /\ Len(original_program_data) = 3
    /\ Len(program_data) = 1


\* C15: a launch request made while the selected row is outside the active
\* view (an empty view included) creates and starts no Downloader, spawns no
\* process, logs "No program selected" after the press, and leaves the
\* launcher Idle.
C15_NoSelectionDoesNothing ==
    (session.id > 0 /\ ~(0 <= session.row /\ session.row < session.rows)) =>
        /\ session.created = 0
        /\ session.started = 0
        /\ spawned = <<>>
        /\ logs = <<Line("Launch button pressed", <<>>), Line("No program selected", <<>>)>>
        /\ Idle

\* A launch was requested on an empty view with no row selected.
C15_Witness ==
    /\ session.id > 0
    /\ session.rows = 0
    /\ session.row = -1
    /\ lines_with("No program selected") # {}

\* C18: in every reachable state the launch button is disabled exactly when
\* the Downloader of the latest launch has been started and its finished
\* signal has not been handled yet; when finished has been handled (the
\* button is enabled again) the terminal signal was handled before it.
C18_DisabledWhileJobLives ==
    /\ ~launch_enabled <=> (session.started = 1 /\ ~session.finished)
    /\ (session.started = 1 /\ session.finished) => session.outcome \in {"succeeded", "failed"}

\* The terminal signal of a started job was handled and the button is still
\* disabled, finished being on its way.
C18_Witness ==
    /\ session.started = 1
    /\ session.outcome = "failed"
    /\ ~session.finished
    /\ ~launch_enabled

\* C17: a process is started only for a destination file that was written
\* to the end: no Popen call is made for a file that a failed download left
\* behind (or that is still being written).
C17_NeverSpawnsIncompleteFile ==
    \A i \in DOMAIN spawned : spawned[i].path \notin incomplete

\* C14: whenever a launch has left the Idle state (its Downloader was started
\* and the button disabled), the launcher eventually is Idle again with the
\* button enabled, given that the Downloader thread keeps running and its
\* network and file calls return.
C14_EventuallyIdle == (~Idle) ~> Idle

\* A started job has been handled to the end and the launcher is Idle again.
C14_Witness ==
    /\ session.started = 1
    /\ session.finished
    /\ Idle

\* C16: when the catalog load fails (the request, the parse, or an object
\* that lacks one of the keys program, version, README, binary_url), the
\* catalog is left empty: original_program_data, program_data and
\* search_choices hold no entries.
C16_FailedLoadLeavesNothing ==
    (\/ load = "failed"
     \/ \E i \in DOMAIN original_program_data :
           \E field \in {"program", "version", "README", "binary_url"} :
              ~has_key(original_program_data[i], field))
    => /\ original_program_data = <<>>
       /\ program_data = <<>>
       /\ search_choices = <<>>

==============================================================================
